---- MODULE Spec2Model ----
(***************************************************************************)
(* Options Calculator API: the six data endpoints of routes/stocks.py and  *)
(* routes/options.py over services/yfinance_service.py.  The market-data   *)
(* provider (yfinance) is the environment: every provider call of a        *)
(* request either raises or returns a payload drawn from a small pool.     *)
(* One action is one HTTP request handled to completion; `last` holds the  *)
(* request, the provider outcomes it saw and the response it produced.     *)
(*                                                                         *)
(* Strings that the code inspects character by character (search queries,  *)
(* static table, symbols) are sequences of one-character strings.          *)
(* Floats are exact rationals with a NaN flag (record nan/num/den).        *)
(***************************************************************************)
EXTENDS Integers, Sequences, FiniteSets, TLC

VARIABLES cache, used, issued, last, loop

vars == <<cache, used, issued, last, loop>>

---------------------------------------------------------------------------
(* Python values *)

\* dict values and Optional parameters: <<>> is None, <<x>> is the value x
None == <<>>

Some(x) == <<x>>

IsNone(o) == o = <<>>

\* dict.get(key, default) on a dict modelled as a function from its keys
DictGet(d, key, default) == IF key \in DOMAIN d THEN d[key] ELSE Some(default)

Min(a, b) == IF a <= b THEN a ELSE b

---------------------------------------------------------------------------
(* str.upper / str.lower / substring test on character sequences *)

UpperChars ==
   <<"A","B","C","D","E","F","G","H","I","J","K","L","M",
     "N","O","P","Q","R","S","T","U","V","W","X","Y","Z">>

LowerChars ==
   <<"a","b","c","d","e","f","g","h","i","j","k","l","m",
     "n","o","p","q","r","s","t","u","v","w","x","y","z">>

\* the letters' upper-case and lower-case forms, as lookup tables
UpperOf ==
   [c \in { LowerChars[i] : i \in 1..26 } |->
      UpperChars[CHOOSE i \in 1..26 : LowerChars[i] = c]]

LowerOf ==
   [c \in { UpperChars[i] : i \in 1..26 } |->
      LowerChars[CHOOSE i \in 1..26 : UpperChars[i] = c]]

CharUpper(c) == IF c \in DOMAIN UpperOf THEN UpperOf[c] ELSE c

CharLower(c) == IF c \in DOMAIN LowerOf THEN LowerOf[c] ELSE c

StrUpper(s) == [i \in 1..Len(s) |-> CharUpper(s[i])]

StrLower(s) == [i \in 1..Len(s) |-> CharLower(s[i])]

\* Python's  needle in hay  for strings
Contains(needle, hay) ==
   \E i \in 0..(Len(hay) - Len(needle)) :
      \A j \in 1..Len(needle) : hay[i + j] = needle[j]

---------------------------------------------------------------------------
(* Exceptions and service results *)

Exc(type, msg) == [type |-> type, msg |-> msg]

Ok(v) == [ok |-> TRUE, value |-> v]

Raised(e) == [ok |-> FALSE, exc |-> e]

\* what a failing provider call raises: some exception that is no ValueError
ProviderExc == Exc("ConnectionError", <<"provider unreachable">>)

\* a provider call's outcome: it raised, or it returned a payload
Fails == [raises |-> TRUE]

Returns(p) == [raises |-> FALSE, payload |-> p]

---------------------------------------------------------------------------
(* The static search table, in the dict's insertion order *)

common_symbols ==
   << [symbol |-> <<"A","A","P","L">>,
       name |-> <<"A","p","p","l","e"," ","I","n","c",".">>],
      [symbol |-> <<"M","S","F","T">>,
       name |-> <<"M","i","c","r","o","s","o","f","t"," ","C","o","r","p","o","r","a","t","i","o","n">>],
      [symbol |-> <<"G","O","O","G","L">>,
       name |-> <<"A","l","p","h","a","b","e","t"," ","I","n","c",".">>],
      [symbol |-> <<"A","M","Z","N">>,
       name |-> <<"A","m","a","z","o","n",".","c","o","m"," ","I","n","c",".">>],
      [symbol |-> <<"M","E","T","A">>,
       name |-> <<"M","e","t","a"," ","P","l","a","t","f","o","r","m","s"," ","I","n","c",".">>],
      [symbol |-> <<"T","S","L","A">>,
       name |-> <<"T","e","s","l","a"," ","I","n","c",".">>],
      [symbol |-> <<"N","V","D","A">>,
       name |-> <<"N","V","I","D","I","A"," ","C","o","r","p","o","r","a","t","i","o","n">>],
      [symbol |-> <<"S","P","Y">>,
       name |-> <<"S","P","D","R"," ","S","&","P"," ","5","0","0"," ","E","T","F"," ","T","r","u","s","t">>],
      [symbol |-> <<"Q","Q","Q">>,
       name |-> <<"I","n","v","e","s","c","o"," ","Q","Q","Q"," ","T","r","u","s","t">>],
      [symbol |-> <<"A","M","D">>,
       name |-> <<"A","d","v","a","n","c","e","d"," ","M","i","c","r","o"," ","D","e","v","i","c","e","s"," ","I","n","c",".">>],
      [symbol |-> <<"N","F","L","X">>,
       name |-> <<"N","e","t","f","l","i","x"," ","I","n","c",".">>],
      [symbol |-> <<"D","I","S">>,
       name |-> <<"T","h","e"," ","W","a","l","t"," ","D","i","s","n","e","y"," ","C","o","m","p","a","n","y">>],
      [symbol |-> <<"B","A">>,
       name |-> <<"T","h","e"," ","B","o","e","i","n","g"," ","C","o","m","p","a","n","y">>],
      [symbol |-> <<"J","P","M">>,
       name |-> <<"J","P","M","o","r","g","a","n"," ","C","h","a","s","e"," ","&"," ","C","o",".">>],
      [symbol |-> <<"V">>,
       name |-> <<"V","i","s","a"," ","I","n","c",".">>] >>

---------------------------------------------------------------------------
(* HTTP responses *)

\* `last` between requests: the previous response has been sent
NoRequest == [endpoint |-> "none"]

Idle == last = NoRequest

Timestamp == "datetime.now().isoformat()"

\* the success body of the quote, volatility, search, expiries and chain routes
Envelope(data) ==
   [data |-> data, status |-> "success", timestamp |-> Timestamp, cached |-> FALSE]

Http(code, body) == [code |-> code, body |-> body]

HTTPException(status_code, detail) == Http(status_code, [detail |-> detail])

---------------------------------------------------------------------------
(* GET /api/stocks/search: search_symbols behind lru_cache(maxsize=100) *)

maxsize == 100

\* the part of ticker.info that search and validate read
ZZ == <<"Z","Z">>

ZZName == <<"Z","Z"," ","C","o","r","p">>

SymbolInfos ==
   { Fails,
     Returns(<<>>),
     Returns([symbol |-> Some(ZZ)]),
     Returns([symbol |-> Some(ZZ), longName |-> Some(ZZName)]) }

\* the string a None dict value shows as
NoneName == <<"None">>

Unwrap(o) == IF IsNone(o) THEN NoneName ELSE o[1]

StaticMatch(query_upper, e) ==
   \/ Contains(query_upper, e.symbol)
   \/ Contains(StrLower(query_upper), StrLower(e.name))

\* the cap left out
LimitNone(results) == results

Limit(results) == SubSeq(results, 1, Min(10, Len(results)))

\* the body of YFinanceService.search_symbols; info is what the live lookup
\* would give.  lookups counts the provider calls made.
search_symbols(query, info) ==
   LET query_upper == StrUpper(query)
       Test(e)     == StaticMatch(query_upper, e)
       static      == SelectSeq(common_symbols, Test)
       tried       == static = <<>> /\ Len(query) <= 5
       confirmed   == /\ tried
                      /\ ~info.raises
                      /\ DOMAIN info.payload # {}
                      /\ "symbol" \in DOMAIN info.payload
       live        == IF confirmed
                      THEN << [symbol |-> StrUpper(query),
                               name   |-> Unwrap(DictGet(info.payload, "longName",
                                                         StrUpper(query)))] >>
                      ELSE <<>>
   IN  [results |-> Limit(static \o live),
        lookups |-> IF tried THEN 1 ELSE 0]

\* functools.lru_cache: entries in recency order, least recently used first
CacheKeys(c) == { c[i].key : i \in DOMAIN c }

CacheHas(c, k) == \E i \in DOMAIN c : c[i].key = k

CacheValue(c, k) == c[CHOOSE i \in DOMAIN c : c[i].key = k].value

\* a hit that leaves the recency order alone (first in, first out)
CacheHitInPlace(c, k) == c

CacheHit(c, k) ==
   LET Other(e) == e.key # k
   IN  SelectSeq(c, Other) \o << [key |-> k, value |-> CacheValue(c, k)] >>

CacheMiss(c, k, v) ==
   (IF Len(c) >= maxsize THEN Tail(c) ELSE c) \o << [key |-> k, value |-> v] >>

\* whether search_symbols(query) reaches its live lookup
NeedsLookup(query) ==
   LET Test(e) == StaticMatch(StrUpper(query), e)
   IN  SelectSeq(common_symbols, Test) = <<>> /\ Len(query) <= 5

\* the provider outcomes a request with query string q can meet: the provider
\* is called only when the memo misses and the static table has no match
SearchOutcomes(q) ==
   IF ~CacheHas(cache, StrUpper(q)) /\ NeedsLookup(StrUpper(q))
   THEN SymbolInfos ELSE {Fails}

\* routes/stocks.py search_symbols(q): one request with query string q
Search(q, info) ==
   \E key \in {StrUpper(q)} :
      \E hit \in {CacheHas(cache, key)} :
         \E run \in {IF hit THEN [results |-> CacheValue(cache, key), lookups |-> 0]
                             ELSE search_symbols(key, info)} :
            LET NotKey(k) == k # key
            IN  /\ cache' = IF hit THEN CacheHit(cache, key)
                                   ELSE CacheMiss(cache, key, run.results)
                /\ used'  = SelectSeq(used, NotKey) \o <<key>>
                /\ last'  = [endpoint |-> "search",
                             q        |-> q,
                             hit      |-> hit,
                             lookups  |-> run.lookups,
                             info     |-> info,
                             resp     |-> Http(200, Envelope(run.results))]

---------------------------------------------------------------------------
(* Floats: exact rationals num/den (den > 0) and NaN *)

F(n) == [nan |-> FALSE, num |-> n, den |-> 1]

NaN == [nan |-> TRUE, num |-> 0, den |-> 1]

Abs(n) == IF n < 0 THEN -n ELSE n

Sign(n) == IF n < 0 THEN -1 ELSE 1

IsZero(a) == ~a.nan /\ a.num = 0

\* bool(x) of a float: NaN is truthy, 0.0 is not
Truthy(a) == a.nan \/ a.num # 0

FSub(a, b) ==
   IF a.nan \/ b.nan THEN NaN
   ELSE [nan |-> FALSE, num |-> a.num * b.den - b.num * a.den, den |-> a.den * b.den]

FMul(a, b) ==
   IF a.nan \/ b.nan THEN NaN
   ELSE [nan |-> FALSE, num |-> a.num * b.num, den |-> a.den * b.den]

\* a / b for b # 0.0 (a zero divisor raises ZeroDivisionError at the call site)
FDiv(a, b) ==
   IF a.nan \/ b.nan THEN NaN
   ELSE [nan |-> FALSE, num |-> a.num * b.den * Sign(b.num), den |-> a.den * Abs(b.num)]

\* a < b ; every comparison with NaN is False
FLess(a, b) == ~a.nan /\ ~b.nan /\ a.num * b.den < b.num * a.den

\* Python's max(a, b) and min(a, b): the first argument unless the second beats it
PyMax(a, b) == IF FLess(a, b) THEN b ELSE a

PyMin(a, b) == IF FLess(b, a) THEN b ELSE a

Last(s) == s[Len(s)]

---------------------------------------------------------------------------
(* The routes' shared try/except: ValueError -> 404, anything else -> 500 *)

RouteResponse(result) ==
   IF result.ok THEN Http(200, Envelope(result.value))
   ELSE IF result.exc.type = "ValueError"
        THEN HTTPException(404, result.exc.msg)
        ELSE HTTPException(500, <<"Internal server error: ">> \o result.exc.msg)

\* the services' outer  except Exception as e: raise ValueError(f"{prefix}: {e}")
Reraise(prefix, e) == Raised(Exc("ValueError", <<prefix>> \o e.msg))

Symbols == { <<"a","a","p","l">> }

---------------------------------------------------------------------------
(* GET /api/stocks/{symbol}/quote *)

QuoteInfos ==
   { Fails,
     Returns([marketCap |-> Some(3000)]),
     Returns([previousClose |-> None]),
     Returns([previousClose |-> Some(0)]),
     Returns([previousClose |-> Some(148), marketCap |-> Some(3000)]),
     Returns([previousClose |-> Some(150)]) }

\* ticker.history(period="1d"): the Close column
QuoteHistories == { Fails, Returns(<<>>), Returns(<<0>>), Returns(<<150>>) }

\* the division without its zero guard
ChangePercentUnguarded(change, previous_close) ==
   FMul(FDiv(change, previous_close), F(100))

\* (change / previous_close) * 100 if previous_close else 0
ChangePercent(change, previous_close) ==
   IF Truthy(previous_close)
   THEN FMul(FDiv(change, previous_close), F(100))
   ELSE F(0)

QuoteFailed == "Failed to fetch data for {symbol}: "

get_stock_quote(symbol, info, hist) ==
   IF info.raises \/ hist.raises THEN Reraise(QuoteFailed, ProviderExc)
   ELSE IF hist.payload = <<>>
        THEN Reraise(QuoteFailed,
                     Exc("ValueError", <<"No data available for symbol: {symbol}">>))
   ELSE LET current_price  == Last(hist.payload)
            previous_close == DictGet(info.payload, "previousClose", current_price)
        IN  IF IsNone(previous_close)
            THEN Reraise(QuoteFailed,
                         Exc("TypeError", <<"unsupported operand type(s) for -">>))
            ELSE LET change == FSub(F(current_price), F(previous_close[1]))
                     change_percent == ChangePercent(change, F(previous_close[1]))
                 IN  Ok([symbol        |-> StrUpper(symbol),
                         price         |-> F(current_price),
                         change        |-> change,
                         changePercent |-> change_percent,
                         marketCap     |-> IF "marketCap" \in DOMAIN info.payload
                                           THEN info.payload.marketCap ELSE None,
                         previousClose |-> F(previous_close[1]),
                         timestamp     |-> Timestamp])

Quote ==
   /\ Idle
   /\ \E symbol \in Symbols, info \in QuoteInfos, hist \in QuoteHistories :
         last' = [endpoint |-> "quote",
                  symbol   |-> symbol,
                  info     |-> info,
                  hist     |-> hist,
                  resp     |-> RouteResponse(get_stock_quote(StrUpper(symbol), info, hist))]
   /\ UNCHANGED <<cache, used, issued, loop>>

---------------------------------------------------------------------------
(* GET /api/stocks/{symbol}/validate *)

AAPL == <<"A","A","P","L">>

AppleInc == <<"A","p","p","l","e"," ","I","n","c",".">>

ValidateInfos ==
   { Fails,
     Returns(<<>>),
     Returns([symbol |-> None, longName |-> Some(AppleInc)]),
     Returns([symbol |-> Some(AAPL)]),
     Returns([symbol |-> Some(AAPL), longName |-> Some(AppleInc)]) }

\* ticker.options as validate reads it
ValidateOptions == { Fails, Returns(<<>>), Returns(<<"2026-01-16">>) }

\* the expiry-list lookup outside its own try: its failure reaches the outer handler
validate_symbol_outer(symbol, info, options) ==
   IF info.raises \/ options.raises
   THEN Ok([valid |-> FALSE, optionable |-> FALSE, name |-> <<>>])
   ELSE LET valid == /\ "symbol" \in DOMAIN info.payload
                     /\ ~IsNone(info.payload.symbol)
        IN  Ok([valid      |-> valid,
                optionable |-> Len(options.payload) > 0,
                name       |-> IF valid
                               THEN Unwrap(DictGet(info.payload, "longName", StrUpper(symbol)))
                               ELSE <<>>])

validate_symbol(symbol, info, options) ==
   IF info.raises
   THEN Ok([valid |-> FALSE, optionable |-> FALSE, name |-> <<>>])
   ELSE LET valid == /\ "symbol" \in DOMAIN info.payload
                     /\ ~IsNone(info.payload.symbol)
            optionable == IF options.raises THEN FALSE ELSE Len(options.payload) > 0
        IN  Ok([valid      |-> valid,
                optionable |-> optionable,
                name       |-> IF valid
                               THEN Unwrap(DictGet(info.payload, "longName", StrUpper(symbol)))
                               ELSE <<>>])

\* routes/stocks.py validate_symbol: its success body has no "cached" key
ValidateResponse(result) ==
   IF result.ok
   THEN Http(200, [data |-> result.value, status |-> "success", timestamp |-> Timestamp])
   ELSE HTTPException(500, <<"Internal server error: ">> \o result.exc.msg)

Validate ==
   /\ Idle
   /\ \E symbol \in Symbols, info \in ValidateInfos, options \in ValidateOptions :
         last' = [endpoint |-> "validate",
                  symbol   |-> symbol,
                  info     |-> info,
                  options  |-> options,
                  resp     |-> ValidateResponse(
                                  validate_symbol(StrUpper(symbol), info, options))]
   /\ UNCHANGED <<cache, used, issued, loop>>

---------------------------------------------------------------------------
(* Calendar dates: "YYYY-MM-DD" strings are records of their three fields *)

Date(y, m, d) == [year |-> y, month |-> m, day |-> d]

IsLeap(y) == (y % 4 = 0) /\ ((y % 100 # 0) \/ (y % 400 = 0))

DaysBeforeMonth == <<0, 31, 59, 90, 120, 151, 181, 212, 243, 273, 304, 334>>

\* datetime.toordinal(): days since 0001-01-01, counting from 1
Ordinal(dt) ==
   LET y == dt.year - 1
   IN  y * 365 + (y \div 4) - (y \div 100) + (y \div 400)
       + DaysBeforeMonth[dt.month]
       + (IF dt.month > 2 /\ IsLeap(dt.year) THEN 1 ELSE 0)
       + dt.day

\* (expiry_date - today).days: expiry is at midnight, today is datetime.now()
\* with tod seconds into its day; timedelta.days rounds toward minus infinity
DaysUntil(expiry, today) ==
   Ordinal(expiry) - Ordinal(today.date) - (IF today.tod > 0 THEN 1 ELSE 0)

---------------------------------------------------------------------------
(* GET /api/options/{symbol}/expiries *)

MaxExpiries == 2

ExpiryPool ==
   { Date(2026, 1, 2),  Date(2026, 1, 14), Date(2026, 1, 21), Date(2026, 2, 18),
     Date(2026, 3, 20),
     Date(2027, 1, 9),  Date(2027, 1, 10), Date(2027, 1, 15), Date(2027, 1, 22) }

ExpiryLists == UNION { [1..n -> ExpiryPool] : n \in 0..MaxExpiries }

Nows == { [date |-> Date(2026, 1, 9), tod |-> 0],
          [date |-> Date(2026, 1, 9), tod |-> 34200] }

\* the day-of-month test taking precedence over the days-out test
ExpiryEntryMonthlyFirst(expiry_str, today) ==
   LET is_monthly == expiry_str.day >= 15 /\ expiry_str.day <= 21
       days_until == DaysUntil(expiry_str, today)
   IN  [date            |-> expiry_str,
        type            |-> IF is_monthly THEN "monthly"
                            ELSE IF days_until > 365 THEN "leaps" ELSE "weekly",
        daysUntilExpiry |-> days_until,
        isStandard      |-> is_monthly]

\* a classification that names the monthly expiries of March, June, September
\* and December quarterly
ExpiryEntryQuarterly(expiry_str, today) ==
   LET is_monthly == expiry_str.day >= 15 /\ expiry_str.day <= 21
       days_until == DaysUntil(expiry_str, today)
   IN  [date            |-> expiry_str,
        type            |-> IF days_until > 365 THEN "leaps"
                            ELSE IF is_monthly /\ expiry_str.month % 3 = 0 THEN "quarterly"
                            ELSE IF is_monthly THEN "monthly" ELSE "weekly",
        daysUntilExpiry |-> days_until,
        isStandard      |-> is_monthly]

ExpiryEntry(expiry_str, today) ==
   LET expiry_date == expiry_str
       days_until  == DaysUntil(expiry_date, today)
       is_monthly  == expiry_date.day >= 15 /\ expiry_date.day <= 21
       is_leaps    == days_until > 365
       expiry_type == IF is_leaps THEN "leaps"
                      ELSE IF is_monthly THEN "monthly" ELSE "weekly"
   IN  [date            |-> expiry_str,
        type            |-> expiry_type,
        daysUntilExpiry |-> days_until,
        isStandard      |-> is_monthly]

ExpiriesFailed == "Failed to fetch expiry dates: "

get_expiry_dates(symbol, options, today) ==
   IF options.raises THEN Reraise(ExpiriesFailed, ProviderExc)
   ELSE IF options.payload = <<>>
        THEN Reraise(ExpiriesFailed,
                     Exc("ValueError", <<"No options available for {symbol}">>))
   ELSE Ok([i \in 1..Len(options.payload) |-> ExpiryEntry(options.payload[i], today)])

\* the filter with both day bounds exclusive
KeepExpiryExclusive(expiry, flags) ==
   /\ ~(expiry.type = "weekly" /\ ~flags.includeWeeklies)
   /\ ~(expiry.type = "monthly" /\ ~flags.includeMonthlies)
   /\ ~(expiry.type = "quarterly" /\ ~flags.includeQuarterlies)
   /\ ~(expiry.type = "leaps" /\ ~flags.includeLeaps)
   /\ ~(~IsNone(flags.minDaysOut) /\ expiry.daysUntilExpiry <= flags.minDaysOut[1])
   /\ ~(~IsNone(flags.maxDaysOut) /\ expiry.daysUntilExpiry >= flags.maxDaysOut[1])

\* the route's filter by type flag and by days out
KeepExpiry(expiry, flags) ==
   /\ ~(expiry.type = "weekly" /\ ~flags.includeWeeklies)
   /\ ~(expiry.type = "monthly" /\ ~flags.includeMonthlies)
   /\ ~(expiry.type = "quarterly" /\ ~flags.includeQuarterlies)
   /\ ~(expiry.type = "leaps" /\ ~flags.includeLeaps)
   /\ ~(~IsNone(flags.minDaysOut) /\ expiry.daysUntilExpiry < flags.minDaysOut[1])
   /\ ~(~IsNone(flags.maxDaysOut) /\ expiry.daysUntilExpiry > flags.maxDaysOut[1])

ExpiriesData(symbol, all_expiries, flags) ==
   LET Keep(e) == KeepExpiry(e, flags)
   IN  [symbol      |-> StrUpper(symbol),
        expiryDates |-> SelectSeq(all_expiries, Keep),
        timestamp   |-> Timestamp]

ExpiryFlags ==
   [includeWeeklies : BOOLEAN, includeMonthlies : BOOLEAN,
    includeQuarterlies : BOOLEAN, includeLeaps : BOOLEAN,
    minDaysOut : {None, Some(40)}, maxDaysOut : {None, Some(365)}]

Expiries ==
   /\ Idle
   /\ \E symbol \in Symbols, flags \in ExpiryFlags, today \in Nows,
         options \in {Fails} \cup { Returns(l) : l \in ExpiryLists } :
         LET result == get_expiry_dates(StrUpper(symbol), options, today)
         IN  last' = [endpoint |-> "expiries",
                      symbol   |-> symbol,
                      flags    |-> flags,
                      today    |-> today,
                      options  |-> options,
                      all_expiries |-> IF result.ok THEN result.value ELSE <<>>,
                      resp     |-> RouteResponse(
                                     IF result.ok
                                     THEN Ok(ExpiriesData(symbol, result.value, flags))
                                     ELSE result)]
   /\ UNCHANGED <<cache, used, issued, loop>>

---------------------------------------------------------------------------
(* GET /api/options/{symbol}/chain *)

MaxRows == 2

MaxPutRows == 1

Row(strike, lastPrice, iv) ==
   [strike |-> strike, lastPrice |-> lastPrice, impliedVolatility |-> iv]

\* option rows of the provider; impliedVolatility in units of 1/10000
RowPool == { Row(95, 7, 0), Row(100, 3, 2000), Row(105, 0, 50000), Row(105, 2, 2500) }

PutPool == { Row(100, 0, 2000), Row(110, 8, 2500) }

\* the call strikes 95, 100, 105, 110, 115
LadderCalls ==
   << Row(95, 9, 3000), Row(100, 5, 2600), Row(105, 2, 2400),
      Row(110, 1, 2500), Row(115, 0, 2900) >>

CallLists == UNION { [1..n -> RowPool] : n \in 0..MaxRows } \cup {LadderCalls}

PutLists == UNION { [1..n -> PutPool] : n \in 0..MaxPutRows }

Chains == { [calls |-> c, puts |-> p] : c \in CallLists, p \in PutLists }

\* ticker.history(period="1d") as the chain reads it
ChainHistories == { Fails, Returns(<<>>), Returns(<<100>>), Returns(<<103>>) }

ChainOptions == { Fails, Returns(<<>>), Returns(<<Date(2026, 1, 16), Date(2026, 2, 20)>>) }

IntMax(a, b) == IF b > a THEN b ELSE a

\* the bounds taken as exclusive
StrikeFilterExclusive(df, min_strike, max_strike) ==
   LET AboveMin(r) == IsNone(min_strike) \/ r.strike > min_strike[1]
       BelowMax(r) == IsNone(max_strike) \/ r.strike < max_strike[1]
   IN  SelectSeq(SelectSeq(df, AboveMin), BelowMax)

StrikeFilter(df, min_strike, max_strike) ==
   LET AboveMin(r) == IsNone(min_strike) \/ r.strike >= min_strike[1]
       BelowMax(r) == IsNone(max_strike) \/ r.strike <= max_strike[1]
   IN  SelectSeq(SelectSeq(df, AboveMin), BelowMax)

\* the extrinsic value without its floor at 0
ContractUnclamped(row, option_type, underlying_price, expiry_date) ==
   LET intrinsic == IF option_type = "call"
                    THEN IntMax(0, underlying_price - row.strike)
                    ELSE IntMax(0, row.strike - underlying_price)
   IN  [strikePrice       |-> row.strike,
        expiryDate        |-> expiry_date,
        optionType        |-> option_type,
        lastPrice         |-> row.lastPrice,
        impliedVolatility |-> row.impliedVolatility,
        inTheMoney        |-> intrinsic > 0,
        intrinsicValue    |-> intrinsic,
        extrinsicValue    |-> row.lastPrice - intrinsic]

Contract(row, option_type, underlying_price, expiry_date) ==
   LET strike     == row.strike
       last_price == row.lastPrice
       intrinsic  == IF option_type = "call"
                     THEN IntMax(0, underlying_price - strike)
                     ELSE IntMax(0, strike - underlying_price)
       extrinsic  == IntMax(0, last_price - intrinsic)
   IN  [strikePrice       |-> strike,
        expiryDate        |-> expiry_date,
        optionType        |-> option_type,
        lastPrice         |-> last_price,
        impliedVolatility |-> row.impliedVolatility,
        inTheMoney        |-> intrinsic > 0,
        intrinsicValue    |-> intrinsic,
        extrinsicValue    |-> extrinsic]

process_options(df, option_type, underlying_price, expiry_date) ==
   [i \in 1..Len(df) |-> Contract(df[i], option_type, underlying_price, expiry_date)]

\* sorted(list(set(...))) of a list of numbers
RECURSIVE SortedSet(_)
SortedSet(S) ==
   IF S = {} THEN <<>>
   ELSE LET m == CHOOSE x \in S : \A y \in S : x <= y
        IN  <<m>> \o SortedSet(S \ {m})

UniqueStrikes(calls) == SortedSet({ calls[i].strikePrice : i \in DOMAIN calls })

ChainFailed == "Failed to fetch options chain: "

get_options_chain(symbol, expiry_date, min_strike, max_strike, options, chain, hist) ==
   IF IsNone(expiry_date) /\ options.raises THEN Reraise(ChainFailed, ProviderExc)
   ELSE IF IsNone(expiry_date) /\ options.payload = <<>>
        THEN Reraise(ChainFailed,
                     Exc("ValueError", <<"No options available for {symbol}">>))
   ELSE IF chain.raises \/ hist.raises \/ options.raises
        THEN Reraise(ChainFailed, ProviderExc)
   ELSE LET expiry == IF IsNone(expiry_date) THEN options.payload[1] ELSE expiry_date[1]
            underlying_price == IF hist.payload # <<>> THEN Last(hist.payload) ELSE 0
            calls_df == StrikeFilter(chain.payload.calls, min_strike, max_strike)
            puts_df  == StrikeFilter(chain.payload.puts, min_strike, max_strike)
            calls == process_options(calls_df, "call", underlying_price, expiry)
            puts  == process_options(puts_df, "put", underlying_price, expiry)
        IN  Ok([underlying      |-> StrUpper(symbol),
                underlyingPrice |-> underlying_price,
                timestamp       |-> Timestamp,
                expiryDates     |-> options.payload,
                strikes         |-> UniqueStrikes(calls),
                calls           |-> calls,
                puts            |-> puts])

Chain ==
   /\ Idle
   /\ \E symbol \in Symbols,
         expiryDate \in {None, Some(Date(2026, 2, 20))},
         minStrike \in {None, Some(100)},
         maxStrike \in {None, Some(110)},
         options \in ChainOptions,
         chain \in {Fails} \cup { Returns(c) : c \in Chains },
         hist \in ChainHistories :
         last' = [endpoint   |-> "chain",
                  symbol     |-> symbol,
                  expiryDate |-> expiryDate,
                  minStrike  |-> minStrike,
                  maxStrike  |-> maxStrike,
                  options    |-> options,
                  chain      |-> chain,
                  hist       |-> hist,
                  resp       |-> RouteResponse(
                                    get_options_chain(StrUpper(symbol), expiryDate,
                                       minStrike, maxStrike, options, chain, hist))]
   /\ UNCHANGED <<cache, used, issued, loop>>

---------------------------------------------------------------------------
(* GET /api/stocks/{symbol}/volatility                                     *)
(* Volatilities are fixed-point numbers in units of 1/10000; the rounding  *)
(* of the float arithmetic is not modelled.                                *)

MaxHist == 3

ClosePool == {100, 110}

\* ticker.history(period=f"{period}d"): the Close column
VolHistories == {Fails} \cup { Returns(h) : h \in UNION { [1..n -> ClosePool] : n \in 0..MaxHist } }

VolOptions == { Fails, Returns(<<>>), Returns(<<Date(2026, 1, 16)>>) }

VolChains == {Fails} \cup { Returns([calls |-> c, puts |-> <<>>]) : c \in CallLists }

RECURSIVE Sum(_)
Sum(s) == IF s = <<>> THEN 0 ELSE s[1] + Sum(Tail(s))

\* the largest k with k * k <= n, searched in lo..hi
RECURSIVE Bisect(_, _, _)
Bisect(n, lo, hi) ==
   IF lo >= hi THEN lo
   ELSE LET mid == (lo + hi + 1) \div 2
        IN  IF mid * mid <= n THEN Bisect(n, mid, hi) ELSE Bisect(n, lo, mid - 1)

ISqrt(n) == Bisect(n, 0, 46340)

\* hist['Close'].pct_change().dropna()
PctChange(closes) ==
   [i \in 1..(Len(closes) - 1) |-> ((closes[i + 1] - closes[i]) * 10000) \div closes[i]]

\* returns.std() * 252 ** 0.5 : the sample deviation (ddof = 1), NaN for one return
HistoricalVolatility(closes) ==
   LET returns == PctChange(closes)
       n       == Len(returns)
       squares == [i \in 1..n |-> returns[i] * returns[i]]
   IN  IF n < 2 THEN NaN
       ELSE F(ISqrt(((n * Sum(squares) - Sum(returns) * Sum(returns)) \div (n * (n - 1))) * 252))

\* the rows (chain.calls['strike'] - current_price).abs().argsort()[:1] may name:
\* argsort's default sort is not stable, so any row at the least distance
AtmRows(calls, current_price) ==
   { i \in DOMAIN calls :
        \A j \in DOMAIN calls :
           Abs(calls[i].strike - current_price) <= Abs(calls[j].strike - current_price) }

ChainUsable(options, chain) ==
   /\ ~options.raises
   /\ options.payload # <<>>
   /\ ~chain.raises
   /\ chain.payload.calls # <<>>

VolFailed == "Failed to calculate volatility: "

\* the history check without its length test
InsufficientEmptyOnly(closes) == closes = <<>>

\* hist.empty or len(hist) < 2
Insufficient(closes) == closes = <<>> \/ Len(closes) < 2

\* the provider calls one get_volatility makes, in the order it makes them:
\* history; then, with enough of it, ticker.options (the argument of the
\* chain fetch) and, given a first expiry, ticker.option_chain
VolatilityCalls(hist, options) ==
   IF hist.raises \/ Insufficient(hist.payload) THEN <<"history">>
   ELSE IF options.raises \/ options.payload = <<>> THEN <<"history", "options">>
   ELSE <<"history", "options", "option_chain">>

\* atm is the row index argsort put first (read only when the chain is usable)
get_volatility(symbol, hist, options, chain, atm) ==
   IF hist.raises THEN Reraise(VolFailed, ProviderExc)
   ELSE IF Insufficient(hist.payload)
        THEN Reraise(VolFailed,
                     Exc("ValueError", <<"Insufficient data for volatility calculation">>))
   ELSE LET hv == HistoricalVolatility(hist.payload)
            iv == IF ChainUsable(options, chain)
                  THEN F(chain.payload.calls[atm].impliedVolatility)
                  ELSE hv
        IN  IF IsZero(hv)
            THEN Reraise(VolFailed, Exc("ZeroDivisionError", <<"float division by zero">>))
            ELSE LET iv_rank == PyMin(F(100), PyMax(F(0), FMul(FDiv(iv, hv), F(50))))
                 IN  Ok([symbol               |-> StrUpper(symbol),
                         impliedVolatility    |-> iv,
                         historicalVolatility |-> hv,
                         ivRank               |-> iv_rank,
                         ivPercentile         |-> iv_rank,
                         timestamp            |-> Timestamp])

Volatility ==
   /\ Idle
   /\ \E symbol \in Symbols, hist \in VolHistories, options \in VolOptions,
         chain \in VolChains :
         \E atm \in IF ChainUsable(options, chain) /\ ~hist.raises /\ hist.payload # <<>>
                    THEN AtmRows(chain.payload.calls, Last(hist.payload))
                    ELSE {0} :
            last' = [endpoint |-> "volatility",
                     symbol   |-> symbol,
                     hist     |-> hist,
                     options  |-> options,
                     chain    |-> chain,
                     atm      |-> atm,
                     calls    |-> VolatilityCalls(hist, options),
                     resp     |-> RouteResponse(
                                     get_volatility(StrUpper(symbol), hist, options,
                                                    chain, atm))]
   /\ UNCHANGED <<cache, used, issued, loop>>

---------------------------------------------------------------------------
(* The clients' search queries *)

MaxQueries == 106

WarmWindow == 2

Slack == 1

DigitChars == <<"0","1","2","3","4","5","6","7","8","9">>

Digit(n) == DigitChars[(n % 10) + 1]

\* a six-character numeric query
Numbered(i) == <<"0","0","0", Digit(i \div 100), Digit(i \div 10), Digit(i)>>

NamedQueries ==
   << <<"z","z">>,
      <<"a">>,
      <<"a","p","p","l","e">>,
      <<"A","p","p","l","e">>,
      <<"5","0","0">>,
      <<"s","p","y","d","e","r">> >>

QueryAt(i) == IF i <= Len(NamedQueries) THEN NamedQueries[i] ELSE Numbered(i)

\* a client sends the next query it has not sent before
SearchNext ==
   /\ Idle
   /\ issued < MaxQueries
   /\ issued' = issued + 1
   /\ UNCHANGED loop
   /\ \E info \in SearchOutcomes(QueryAt(issued + 1)) : Search(QueryAt(issued + 1), info)

\* a client sends one of its first queries again, once the memo is nearly full
SearchAgain ==
   /\ Idle
   /\ issued >= maxsize - Slack
   /\ \E i \in 1..WarmWindow :
         \E info \in SearchOutcomes(QueryAt(i)) : Search(QueryAt(i), info)
   /\ UNCHANGED <<issued, loop>>

\* the requests the server has accepted at one time
MaxClients == 2

Clients == 1..MaxClients

NoResponse == [code |-> 0]

Init ==
   /\ cache = <<>>
   /\ used = <<>>
   /\ issued = 0
   /\ last = NoRequest
   /\ loop = [waiting |-> {}, running |-> {},
              done |-> [c \in Clients |-> NoResponse]]

\* the response goes out and the server waits for the next request
Respond ==
   /\ ~Idle
   /\ last' = NoRequest
   /\ UNCHANGED <<cache, used, issued, loop>>

\* the search requests of the full service: two spellings of one query
SmokeQueries == { <<"a","p","p","l","e">>, <<"A","p","p","l","e">> }

SearchAny ==
   /\ Idle
   /\ \E q \in SmokeQueries : \E info \in SearchOutcomes(q) : Search(q, info)
   /\ UNCHANGED <<issued, loop>>

Next == Quote \/ Volatility \/ Validate \/ SearchAny \/ Expiries \/ Chain \/ Respond

Spec == Init /\ [][Next]_vars

\* the search endpoint alone, under a long run of distinct queries
NextSearch == SearchNext \/ SearchAgain \/ Respond

SpecSearch == Init /\ [][NextSearch]_vars

---------------------------------------------------------------------------
(* Requests in flight.  uvicorn.run(app) serves the application on one     *)
(* event loop.  Every route is an `async def` whose body calls the         *)
(* synchronous service without an await, so a handler holds the loop from  *)
(* its first line until it returns: the provider call inside it is         *)
(* outstanding for as long as the model stays in a state with a running    *)
(* handler.  The quote route stands for the six, which share this shape.   *)

\* the server accepts a connection; its handler waits for the loop
Accept(c) ==
   /\ c \notin loop.waiting
   /\ c \notin loop.running
   /\ loop.done[c] = NoResponse
   /\ loop' = [loop EXCEPT !.waiting = @ \cup {c}]
   /\ UNCHANGED <<cache, used, issued, last>>

\* the loop, free, starts a waiting handler, which enters the provider call
StartHandler(c) ==
   /\ loop.running = {}
   /\ c \in loop.waiting
   /\ loop' = [loop EXCEPT !.waiting = @ \ {c}, !.running = {c}]
   /\ UNCHANGED <<cache, used, issued, last>>

\* the provider call returns or raises; the handler builds its response and
\* gives the loop back
FinishHandler(c) ==
   /\ loop.running = {c}
   /\ \E symbol \in Symbols, info \in QuoteInfos, hist \in QuoteHistories :
         loop' = [loop EXCEPT
                    !.running = {},
                    !.done[c] = [symbol |-> symbol,
                                 info   |-> info,
                                 hist   |-> hist,
                                 code   |-> RouteResponse(
                                               get_stock_quote(StrUpper(symbol),
                                                               info, hist)).code]]
   /\ UNCHANGED <<cache, used, issued, last>>

NextLoop == \E c \in Clients : Accept(c) \/ StartHandler(c) \/ FinishHandler(c)

SpecLoop == Init /\ [][NextLoop]_vars

---------------------------------------------------------------------------
(* Properties *)

EndsWith(s, t) == Len(t) <= Len(s) /\ SubSeq(s, Len(s) - Len(t) + 1, Len(s)) = t

Answered(endpoint) == last.endpoint = endpoint

Succeeded(endpoint) == last.endpoint = endpoint /\ last.resp.code = 200

\* the request met one of the three named conditions: no price history,
\* an empty expiry list, fewer than two price points
NamedFailure ==
   \/ Answered("quote") /\ ~last.info.raises /\ ~last.hist.raises
         /\ last.hist.payload = <<>>
   \/ Answered("expiries") /\ ~last.options.raises /\ last.options.payload = <<>>
   \/ Answered("chain") /\ IsNone(last.expiryDate) /\ ~last.options.raises
         /\ last.options.payload = <<>>
   \/ Answered("volatility") /\ ~last.hist.raises /\ Len(last.hist.payload) < 2

NamedMessage ==
   IF Answered("quote") THEN <<"No data available for symbol: {symbol}">>
   ELSE IF Answered("volatility") THEN <<"Insufficient data for volatility calculation">>
   ELSE <<"No options available for {symbol}">>

\* a provider call raised inside the service call, and no named condition came first
ProviderRaised ==
   \/ Answered("quote") /\ (last.info.raises \/ last.hist.raises)
   \/ Answered("expiries") /\ last.options.raises
   \/ Answered("volatility") /\ last.hist.raises
   \/ Answered("chain") /\ ~NamedFailure
         /\ (last.options.raises \/ last.chain.raises \/ last.hist.raises)

\* C1: on the quote, volatility, expiries and chain endpoints the three named
\* conditions answer 404 with the error message, and any other failure, such as
\* a provider call that raises, answers 500 with a message holding the original text.
C1_FailuresMapByKind ==
   /\ NamedFailure =>
         last.resp.code = 404 /\ EndsWith(last.resp.body.detail, NamedMessage)
   /\ ProviderRaised =>
         last.resp.code = 500 /\ EndsWith(last.resp.body.detail, ProviderExc.msg)

NegativeValidation == [valid |-> FALSE, optionable |-> FALSE, name |-> <<>>]

\* C2 as stated: validation always answers, and when the info lookup or the
\* expiry-list lookup fails the result is exactly the negative one.
C2_AnyFailureGivesNegative ==
   Answered("validate") =>
      /\ last.resp.code = 200
      /\ (last.info.raises \/ last.options.raises) =>
            last.resp.body.data = NegativeValidation

\* what the info payload alone says about the symbol
InfoSaysValid(info) ==
   "symbol" \in DOMAIN info.payload /\ info.payload.symbol # None

InfoSaysName(info, symbol) ==
   IF ~InfoSaysValid(info) THEN <<>>
   ELSE IF "longName" \in DOMAIN info.payload
        THEN (IF info.payload.longName = None THEN NoneName
              ELSE info.payload.longName[1])
        ELSE StrUpper(symbol)

\* C2 amended: validation always answers; a failed info lookup gives exactly the
\* negative result; a failed expiry-list lookup alone gives optionable = false
\* with valid and name as the info lookup determines them.
C2_ValidateNeverRaises ==
   Answered("validate") =>
      /\ last.resp.code = 200
      /\ last.info.raises => last.resp.body.data = NegativeValidation
      /\ (~last.info.raises /\ last.options.raises) =>
            /\ last.resp.body.data.optionable = FALSE
            /\ last.resp.body.data.valid = InfoSaysValid(last.info)
            /\ last.resp.body.data.name = InfoSaysName(last.info, last.symbol)

\* C2 witness: the expiry-list lookup failed for a symbol the info lookup confirmed
C2_Witness ==
   /\ Answered("validate")
   /\ ~last.info.raises
   /\ last.options.raises
   /\ last.resp.body.data.valid
   /\ last.resp.body.data.name = AppleInc

\* the entries an expiries response carries (each as the classifier made it)
Entries == last.resp.body.data.expiryDates

DayInMonthlyWindow(e) == e.date.day \in 15..21

\* C3 as stated: day-of-month in [15,21] gives monthly and isStandard, more than
\* 365 days out gives leaps, anything else weekly, and isStandard holds exactly
\* for the monthly entries.
C3_MonthlyByDayOfMonth ==
   Succeeded("expiries") =>
      \A i \in DOMAIN Entries :
         LET e == Entries[i]
         IN  /\ DayInMonthlyWindow(e) => e.type = "monthly" /\ e.isStandard
             /\ e.daysUntilExpiry > 365 => e.type = "leaps"
             /\ (~DayInMonthlyWindow(e) /\ e.daysUntilExpiry <= 365) => e.type = "weekly"
             /\ e.isStandard <=> e.type = "monthly"

\* C3 amended: an entry more than 365 days out is leaps; otherwise it is monthly
\* when its day-of-month is in [15,21] and weekly when not; isStandard holds
\* exactly when the day-of-month is in [15,21], whatever the type.  The 18th of
\* February 2026 seen from midnight of 9 January 2026 is 40 days out.
C3_ExpiryClassification ==
   Succeeded("expiries") =>
      \A i \in DOMAIN Entries :
         LET e == Entries[i]
         IN  /\ e.daysUntilExpiry > 365 => e.type = "leaps"
             /\ (e.daysUntilExpiry <= 365 /\ DayInMonthlyWindow(e)) => e.type = "monthly"
             /\ (e.daysUntilExpiry <= 365 /\ ~DayInMonthlyWindow(e)) => e.type = "weekly"
             /\ e.isStandard <=> DayInMonthlyWindow(e)
             /\ (e.date = Date(2026, 2, 18) /\ last.today.tod = 0) =>
                   e.daysUntilExpiry = 40 /\ e.type = "monthly" /\ e.isStandard
             /\ (e.date = Date(2027, 1, 10)) =>
                   e.daysUntilExpiry = (IF last.today.tod = 0 THEN 366 ELSE 365)

\* C3 witness: an entry on the 15th, more than a year out, classified leaps and standard
C3_Witness ==
   /\ Succeeded("expiries")
   /\ \E i \in DOMAIN Entries :
         /\ Entries[i].date = Date(2027, 1, 15)
         /\ Entries[i].type = "leaps"
         /\ Entries[i].isStandard

\* a history of at least two price points came back from the provider
HasHistory == ~last.hist.raises /\ Len(last.hist.payload) >= 2

InUnitRange(a) == ~a.nan /\ 0 <= a.num /\ a.num <= 100 * a.den

\* C4: with a history of at least two price points the volatility request
\* succeeds with ivRank in [0, 100] and ivPercentile = ivRank, a flat price
\* history (hv = 0) included.
C4_IvRankAlwaysClamped ==
   (Answered("volatility") /\ HasHistory) =>
      /\ last.resp.code = 200
      /\ InUnitRange(last.resp.body.data.ivRank)
      /\ last.resp.body.data.ivPercentile = last.resp.body.data.ivRank

ChainData == last.resp.body.data

PositivePart(n) == IF n > 0 THEN n ELSE 0

\* the underlying price the provider's history gives: its last close, 0 when empty
Underlying == IF last.hist.payload = <<>> THEN 0 ELSE last.hist.payload[Len(last.hist.payload)]

ContractValuesOk(c, moneyness) ==
   /\ c.intrinsicValue = PositivePart(moneyness)
   /\ c.intrinsicValue >= 0
   /\ c.extrinsicValue = PositivePart(c.lastPrice - c.intrinsicValue)
   /\ c.extrinsicValue >= 0
   /\ c.inTheMoney <=> c.intrinsicValue > 0

\* C5: every contract of a chain response has intrinsicValue = max(0, underlying
\* - strike) for a call and max(0, strike - underlying) for a put, extrinsicValue
\* = max(0, lastPrice - intrinsicValue), both >= 0, and inTheMoney exactly when
\* intrinsicValue > 0; the underlying is 0 when the price history is empty.
C5_ContractValues ==
   Succeeded("chain") =>
      /\ ChainData.underlyingPrice = Underlying
      /\ \A i \in DOMAIN ChainData.calls :
            /\ ChainData.calls[i].optionType = "call"
            /\ ContractValuesOk(ChainData.calls[i],
                                Underlying - ChainData.calls[i].strikePrice)
      /\ \A i \in DOMAIN ChainData.puts :
            /\ ChainData.puts[i].optionType = "put"
            /\ ContractValuesOk(ChainData.puts[i],
                                ChainData.puts[i].strikePrice - Underlying)

\* C5 witness: a call whose last price is below its intrinsic value (extrinsic
\* clamped to 0) beside a put that is out of the money
C5_Witness ==
   /\ Succeeded("chain")
   /\ \E i \in DOMAIN ChainData.calls :
         /\ ChainData.calls[i].inTheMoney
         /\ ChainData.calls[i].lastPrice < ChainData.calls[i].intrinsicValue
         /\ ChainData.calls[i].extrinsicValue = 0
   /\ \E i \in DOMAIN ChainData.puts : ~ChainData.puts[i].inTheMoney

\* s lies within the request's strike bounds, each applied only when given
InStrikeRange(s) ==
   /\ (last.minStrike # None => last.minStrike[1] <= s)
   /\ (last.maxStrike # None => s <= last.maxStrike[1])

\* the provider rows within the bounds, in provider order
RowsInRange(rows) ==
   LET Keep(r) == InStrikeRange(r.strike)
   IN  SelectSeq(rows, Keep)

SameRows(contracts, rows) ==
   /\ Len(contracts) = Len(rows)
   /\ \A i \in DOMAIN rows :
         /\ contracts[i].strikePrice = rows[i].strike
         /\ contracts[i].lastPrice = rows[i].lastPrice
         /\ contracts[i].impliedVolatility = rows[i].impliedVolatility

\* C6: the chain keeps exactly the calls and exactly the puts whose strike is
\* within minStrike..maxStrike (inclusive, each bound only when given), and the
\* strikes list is the strikes of the kept calls alone, ascending, no duplicates;
\* calls at 95,100,105,110,115 with bounds 100 and 110 give strikes 100,105,110.
C6_StrikeFilter ==
   Succeeded("chain") =>
      /\ SameRows(ChainData.calls, RowsInRange(last.chain.payload.calls))
      /\ SameRows(ChainData.puts, RowsInRange(last.chain.payload.puts))
      /\ \A i, j \in DOMAIN ChainData.strikes :
            i < j => ChainData.strikes[i] < ChainData.strikes[j]
      /\ { ChainData.strikes[i] : i \in DOMAIN ChainData.strikes }
            = { last.chain.payload.calls[k].strike :
                   k \in { i \in DOMAIN last.chain.payload.calls :
                             InStrikeRange(last.chain.payload.calls[i].strike) } }
      /\ (/\ last.chain.payload.calls = LadderCalls
          /\ last.minStrike = Some(100)
          /\ last.maxStrike = Some(110)) => ChainData.strikes = <<100, 105, 110>>

\* C6 witness: the ladder 95..115 filtered to 100..110, with a put at 110 kept
\* whose strike is not in the strikes list's source
C6_Witness ==
   /\ Succeeded("chain")
   /\ last.chain.payload.calls = LadderCalls
   /\ last.minStrike = Some(100)
   /\ last.maxStrike = Some(110)
   /\ ChainData.strikes = <<100, 105, 110>>
   /\ Len(ChainData.calls) = 3
   /\ Len(ChainData.puts) = 1

QuoteData == last.resp.body.data

\* the provider answered both lookups with a price, and previousClose is a
\* number or is not in the info at all
QuotePriced ==
   /\ ~last.info.raises
   /\ ~last.hist.raises
   /\ last.hist.payload # <<>>
   /\ ("previousClose" \in DOMAIN last.info.payload => last.info.payload.previousClose # None)

QuotePrice == last.hist.payload[Len(last.hist.payload)]

PreviousCloseAbsent == "previousClose" \notin DOMAIN last.info.payload

\* the previous close the quote works with: the provider's, the price when absent
QuotePrevious ==
   IF PreviousCloseAbsent THEN QuotePrice ELSE last.info.payload.previousClose[1]

\* a float equal to the whole number n
IsNumber(a, n) == ~a.nan /\ a.den # 0 /\ a.num = n * a.den

SearchResults == last.resp.body.data

\* case-insensitive substring
ContainsFolded(needle, hay) == Contains(StrLower(needle), StrLower(hay))

\* the static entries whose symbol or name contains q, in table order
StaticHits(q) ==
   LET Hit(e) == ContainsFolded(q, e.symbol) \/ ContainsFolded(q, e.name)
   IN  SelectSeq(common_symbols, Hit)

FirstTen(s) == IF Len(s) <= 10 THEN s ELSE [i \in 1..10 |-> s[i]]

ProviderConfirms(info) ==
   ~info.raises /\ DOMAIN info.payload # {} /\ "symbol" \in DOMAIN info.payload

\* a search request that the memo did not answer
Computed == Answered("search") /\ ~last.hit

AppleOnly == << [symbol |-> AAPL, name |-> AppleInc] >>

LiveLookupRule ==
   /\ (StaticHits(last.q) # <<>> \/ Len(last.q) > 5) => last.lookups = 0
   /\ (StaticHits(last.q) = <<>> /\ Len(last.q) > 5) => SearchResults = <<>>
   /\ (StaticHits(last.q) = <<>> /\ Len(last.q) <= 5) =>
         /\ last.lookups = 1
         /\ IF ProviderConfirms(last.info)
            THEN Len(SearchResults) = 1 /\ SearchResults[1].symbol = StrUpper(last.q)
            ELSE SearchResults = <<>>

\* C8 as stated: a computed search returns every static entry that matches.
C8_EveryStaticMatch ==
   Computed =>
      /\ StaticHits(last.q) # <<>> => SearchResults = StaticHits(last.q)
      /\ LiveLookupRule
      /\ Len(SearchResults) <= 10

\* C8 amended: a computed search returns, in table order, the first 10 of the
\* static entries whose symbol or name contains the query case-insensitively;
\* only when there is none and the query has at most 5 characters it makes one
\* provider lookup and returns a single result if the provider confirms the
\* symbol, an empty list if not or if the lookup fails; never more than 10
\* entries; the query "apple" answers with AAPL / Apple Inc. alone.
C8_SearchResults ==
   /\ Computed =>
         /\ StaticHits(last.q) # <<>> => SearchResults = FirstTen(StaticHits(last.q))
         /\ LiveLookupRule
         /\ Len(SearchResults) <= 10
   /\ (Answered("search") /\ last.q = <<"a","p","p","l","e">>) =>
         last.resp.code = 200 /\ SearchResults = AppleOnly

\* C8 witness: the query "a", which twelve static entries match, answered with ten
C8_Witness ==
   /\ Computed
   /\ last.q = <<"a">>
   /\ Len(StaticHits(last.q)) = 12
   /\ Len(SearchResults) = 10
   /\ SearchResults[10].symbol = <<"B","A">>

\* the cached key that was used longest ago
LeastRecentlyUsed ==
   used[CHOOSE i \in DOMAIN used :
           /\ used[i] \in CacheKeys(cache)
           /\ \A j \in 1..(i - 1) : used[j] \notin CacheKeys(cache)]

MemoBounded == Len(cache) <= 100 /\ Cardinality(CacheKeys(cache)) = Len(cache)

\* one search request, seen as a step: the query's key is the string handed to
\* the service
MemoStep ==
   (last'.endpoint = "search" /\ last.endpoint = "none") =>
      LET key == StrUpper(last'.q)
      IN  /\ key \in CacheKeys(cache')
          /\ CacheValue(cache', key) = last'.resp.body.data
          /\ key \in CacheKeys(cache) =>
                /\ last'.resp.body.data = CacheValue(cache, key)
                /\ last'.lookups = 0
                /\ CacheKeys(cache') = CacheKeys(cache)
          /\ (key \notin CacheKeys(cache) /\ Len(cache) < 100) =>
                CacheKeys(cache') = CacheKeys(cache) \cup {key}
          /\ (key \notin CacheKeys(cache) /\ Len(cache) = 100) =>
                CacheKeys(cache') = (CacheKeys(cache) \ {LeastRecentlyUsed}) \cup {key}

\* C9: the search memo never holds more than 100 entries, one per query string;
\* a query repeated while cached gets the stored result with no provider
\* lookup; inserting into a full memo evicts the least recently used entry.
C9_SearchMemo == []MemoBounded /\ [][MemoStep]_vars

\* C9 witness: the memo is full, the first query ("zz", asked again before the
\* memo overflowed) is still cached and the second ("a") has been evicted
C9_Witness ==
   /\ Len(cache) = 100
   /\ ZZ \in CacheKeys(cache)
   /\ <<"A">> \notin CacheKeys(cache)
   /\ \E i \in DOMAIN used : used[i] = <<"A">>

StandardEnvelope(body) ==
   /\ DOMAIN body = {"data", "status", "timestamp", "cached"}
   /\ body.status = "success"
   /\ body.cached \in BOOLEAN

\* C10: every successful response of the six data endpoints is the envelope
\* with data, status = "success", timestamp and a boolean cached.
C10_StandardEnvelope ==
   (last.endpoint # "none" /\ last.resp.code = 200) => StandardEnvelope(last.resp.body)

\* C11: while the provider call of one request is outstanding, every other
\* request in flight can still proceed: its handler can start
C11_OthersProceed ==
   \A c \in loop.waiting : loop.running # {} => ENABLED StartHandler(c)

VolData == last.resp.body.data

Distance(row) == Abs(row.strike - Last(last.hist.payload))

\* the first call, in the provider's order, at the least distance from the
\* latest close
FirstNearest(calls) ==
   CHOOSE i \in DOMAIN calls :
      /\ \A j \in DOMAIN calls : Distance(calls[i]) <= Distance(calls[j])
      /\ \A j \in 1..(i - 1) : Distance(calls[j]) > Distance(calls[i])

\* C12: with enough history, impliedVolatility is that of the first call of the
\* nearest expiry's chain at the least distance from the latest close; with no
\* expiries, a failed chain fetch or an empty call list the request succeeds
\* with impliedVolatility equal to historicalVolatility.
C12_ImpliedVolatility ==
   (Answered("volatility") /\ HasHistory) =>
      IF ChainUsable(last.options, last.chain)
      THEN last.resp.code = 200 =>
              VolData.impliedVolatility =
                 F(last.chain.payload.calls[FirstNearest(last.chain.payload.calls)]
                      .impliedVolatility)
      ELSE /\ last.resp.code = 200
           /\ VolData.impliedVolatility = VolData.historicalVolatility

\* C13: a history of fewer than two price points (none, or one) makes the
\* volatility request fail with the insufficient-data error, answered 404 with
\* no data, and the provider was asked for the history only: no expiry list
\* and no option chain was fetched.
C13_InsufficientHistory ==
   (Answered("volatility") /\ ~last.hist.raises /\ Len(last.hist.payload) < 2) =>
      /\ last.resp.code = 404
      /\ last.resp.body.detail =
            <<VolFailed, "Insufficient data for volatility calculation">>
      /\ "data" \notin DOMAIN last.resp.body
      /\ last.calls = <<"history">>

\* one price point, with an expiry and a chain of calls on offer
C13_Witness ==
   /\ Answered("volatility")
   /\ ~last.hist.raises
   /\ Len(last.hist.payload) = 1
   /\ ChainUsable(last.options, last.chain)
   /\ last.resp.code = 404
   /\ last.calls = <<"history">>

\* the response to the same request with includeQuarterlies the other way
OtherQuarterlies ==
   LET flipped == [last.flags EXCEPT !.includeQuarterlies = ~@]
       Keep(e) == KeepExpiry(e, flipped)
   IN  SelectSeq(last.all_expiries, Keep)

\* C14: no entry get_expiry_dates produces has type quarterly (each is weekly,
\* monthly or leaps), and the expiries response lists the same entries
\* whichever way includeQuarterlies is set.
C14_NoQuarterly ==
   Succeeded("expiries") =>
      /\ \A i \in DOMAIN last.all_expiries :
            /\ last.all_expiries[i].type # "quarterly"
            /\ last.all_expiries[i].type \in {"weekly", "monthly", "leaps"}
      /\ Entries = OtherQuarterlies

\* the third Friday of March 2026 asked for with includeQuarterlies off
C14_Witness ==
   /\ Succeeded("expiries")
   /\ ~last.flags.includeQuarterlies
   /\ \E i \in DOMAIN Entries :
         Entries[i].date = Date(2026, 3, 20) /\ Entries[i].type = "monthly"

\* the include flag the request gives for an entry's type
FlagOf(type) ==
   CASE type = "weekly"    -> last.flags.includeWeeklies
     [] type = "monthly"   -> last.flags.includeMonthlies
     [] type = "quarterly" -> last.flags.includeQuarterlies
     [] type = "leaps"     -> last.flags.includeLeaps

WithinDays(days) ==
   /\ IsNone(last.flags.minDaysOut) \/ last.flags.minDaysOut[1] <= days
   /\ IsNone(last.flags.maxDaysOut) \/ days <= last.flags.maxDaysOut[1]

Wanted(e) == FlagOf(e.type) /\ WithinDays(e.daysUntilExpiry)

DefaultFlags ==
   /\ last.flags.includeWeeklies /\ last.flags.includeMonthlies
   /\ last.flags.includeQuarterlies /\ last.flags.includeLeaps
   /\ IsNone(last.flags.minDaysOut) /\ IsNone(last.flags.maxDaysOut)

\* C15: the expiries response lists, in the provider's order and unchanged,
\* exactly the classified entries whose type's include flag is set and whose
\* daysUntilExpiry lies within the day bounds given (each inclusive); with every
\* flag set and no day bound it lists every classified entry.
C15_ExpiriesFilter ==
   Succeeded("expiries") =>
      /\ Len(last.all_expiries) = Len(last.options.payload)
      /\ \A i \in DOMAIN last.all_expiries :
            last.all_expiries[i].date = last.options.payload[i]
      /\ Entries = SelectSeq(last.all_expiries, Wanted)
      /\ DefaultFlags => Entries = last.all_expiries

\* from midnight of 9 January 2026 with days out in 40..365: the entry 365
\* days out and the one 40 days out are both kept, in the provider's order
C15_Witness ==
   /\ Succeeded("expiries")
   /\ last.today.tod = 0
   /\ last.flags.minDaysOut = Some(40)
   /\ last.flags.maxDaysOut = Some(365)
   /\ last.options.payload = <<Date(2027, 1, 9), Date(2026, 2, 18)>>
   /\ Len(Entries) = 2
   /\ Entries[1].daysUntilExpiry = 365
   /\ Entries[2].daysUntilExpiry = 40

====
